---- MODULE Spec2Model ----
(***************************************************************************)
(* Model of the loki controller bridge:                                    *)
(*   server/server.py            the single-session websocket handler      *)
(*   server/nucleo_interface.py  the lock-guarded serial link              *)
(*                                                                         *)
(* Spec      the asyncio event loop running handle_connection coroutines.  *)
(*           Coroutines are cooperative: a handler keeps the loop from one *)
(*           await to the next (variable running).                         *)
(* LinkSpec  preemptive threads calling send_command / receive_data on one *)
(*           NucleoInterface, byte by byte.                                *)
(* QuerySpec preemptive threads calling the public methods ping,           *)
(*           read_angles and close against a board that answers into the   *)
(*           serial input buffer.                                          *)
(* FnSpec    the operations alone: one call of map_range, set_servo_pwm,   *)
(*           the slider and joystick conversions, and the bytes written.   *)
(***************************************************************************)
EXTENDS Integers, Sequences, FiniteSets, TLC

\* ------------------------------------------------------------------ bounds
NumHandlers == 2       \* websocket connections opened during a run
MaxMsgs     == 2       \* control messages received by the server during a run
NumThreads  == 2       \* threads sharing the serial link (LinkSpec)
MaxOps      == 2       \* link operations issued during a run (LinkSpec)
MaxQueries  == 2       \* public link methods called during a run (QuerySpec)
Precision   == 13      \* significant binary digits of a float
Grid        == 4       \* float arguments are the multiples of 1/Grid in [-2, 2] (FnSpec)
MaxCalls    == 2       \* map_range calls on one pair of ranges (FnSpec)

\* Python's None; connections and threads are numbered from 1.
None     == 0
Handlers == 1..NumHandlers
Threads  == 1..NumThreads

\* --------------------------------------------------------------- numbers
\* Python floats are binary floating-point numbers: every arithmetic result
\* is rounded to the nearest number with Precision significant binary digits,
\* ties to the even one (IEEE-754 doubles have 53 digits). A float is written
\* as the rational <<numerator, denominator>> it equals, in lowest terms with
\* a positive denominator, which is a power of two.
RECURSIVE GCD(_, _)
GCD(a, b) == IF b = 0 THEN a ELSE GCD(b, a % b)

Abs(n) == IF n < 0 THEN -n ELSE n

Rat(n, d) ==
    LET s == IF d < 0 THEN -1 ELSE 1
        g == GCD(Abs(n), Abs(d))
    IN  <<(s * n) \div g, (s * d) \div g>>

\* Python's round(x): to the nearest integer, ties to the even one.
round(a) ==
    LET fl  == a[1] \div a[2]
        rem == a[1] - fl * a[2]
    IN  IF 2 * rem < a[2] THEN fl
        ELSE IF 2 * rem > a[2] THEN fl + 1
        ELSE IF fl % 2 = 0 THEN fl ELSE fl + 1

\* The number of binary digits of the natural number n.
BitLength(n) == CHOOSE k \in 0..30 : n < 2 ^ k /\ (k = 0 \/ n >= 2 ^ (k - 1))

\* The binary exponent of a / d (a, d > 0): 2^e <= a / d < 2^(e + 1). It is
\* g or g - 1, g the difference of the digit counts.
ExponentNear(a, d, g) ==
    IF g >= 0 THEN (IF a >= d * 2 ^ g THEN g ELSE g - 1)
    ELSE (IF a * 2 ^ (-g) >= d THEN g ELSE g - 1)
Exponent(a, d) == ExponentNear(a, d, BitLength(a) - BitLength(d))

\* How many times 2 divides the positive integer n.
TrailingZeros(n) == CHOOSE k \in 0..30 : n % 2 ^ k = 0 /\ n % 2 ^ (k + 1) # 0

\* m * 2^e (m # 0) in lowest terms; z is how many times 2 divides m.
Scaled(m, e, z) ==
    IF e >= 0 THEN <<m * 2 ^ e, 1>>
    ELSE IF z < -e THEN <<m \div 2 ^ z, 2 ^ (-e - z)>>
    ELSE <<m \div 2 ^ (-e), 1>>

\* (n / d) * 2^x, n # 0, rounded to a multiple of 2^(x - s).
NearestAt(n, d, x, s, q) ==
    Scaled(IF n < 0 THEN -q ELSE q, x - s, TrailingZeros(q))

\* The float nearest to (n / d) * 2^x, for d > 0: Precision digits from the
\* first one, which is at 2^Exponent.
NearestFrom(n, d, x, a, s) ==
    NearestAt(n, d, x, s, round(IF s >= 0 THEN <<a * 2 ^ s, d>> ELSE <<a, d * 2 ^ (-s)>>))
Nearest(n, d, x) ==
    IF n = 0 THEN <<0, 1>>
    ELSE NearestFrom(n, d, x, Abs(n), Precision - 1 - Exponent(Abs(n), d))

\* float(x) of a decimal literal or a JSON number x; an int used as a float.
float(x) == Nearest(x[1], x[2], 0)
R(n)     == float(<<n, 1>>)

\* The nonzero float a is Odd(a) * 2^Shift(a), Odd(a) an odd integer.
Odd(a)   == a[1] \div 2 ^ TrailingZeros(Abs(a[1]))
Shift(a) == TrailingZeros(Abs(a[1])) - (BitLength(a[2]) - 1)

\* a + b of nonzero floats with exponents ea and eb and last digits at 2^x or
\* above: exact when the operands' digits overlap, then rounded; an operand
\* below a quarter of the other's last digit does not change it.
Aligned(a, b, ea, eb, x) ==
    IF ea - eb >= Precision + 2 THEN a
    ELSE IF eb - ea >= Precision + 2 THEN b
    ELSE Nearest(Odd(a) * 2 ^ (Shift(a) - x) + Odd(b) * 2 ^ (Shift(b) - x), 1, x)
RAdd(a, b) ==
    IF a[1] = 0 THEN b
    ELSE IF b[1] = 0 THEN a
    ELSE Aligned(a, b, Exponent(Abs(a[1]), a[2]), Exponent(Abs(b[1]), b[2]),
                 IF Shift(a) < Shift(b) THEN Shift(a) ELSE Shift(b))
RSub(a, b) == RAdd(a, <<-b[1], b[2]>>)
RMul(a, b) ==
    IF a[1] = 0 \/ b[1] = 0 THEN <<0, 1>>
    ELSE Nearest(Odd(a) * Odd(b), 1, Shift(a) + Shift(b))
RDiv(a, b) ==
    IF a[1] = 0 THEN <<0, 1>>
    ELSE Nearest(IF b[1] < 0 THEN -Odd(a) ELSE Odd(a), Abs(Odd(b)), Shift(a) - Shift(b))
RLeq(a, b) == RSub(a, b)[1] <= 0
RLt(a, b)  == RSub(a, b)[1] < 0
\* Python's min(a, b) and max(a, b): the first argument wins a tie.
RMin(a, b) == IF RLt(b, a) THEN b ELSE a
RMax(a, b) == IF RLt(a, b) THEN b ELSE a

\* ------------------------------------------------------- program constants
LINEAR_SPEED_LIMIT  == 1000
ANGULAR_SPEED_LIMIT == 10000
ELEVATOR_CHANNEL    == 0
CLAW_CHANNEL        == 1
SERVO_TIMINGS       == (0 :> <<100, 470>>) @@ (1 :> <<100, 470>>)

\* ------------------------------------------------------------ nucleo link
ValueError == [ok |-> FALSE, error |-> "ValueError"]
Command(f) == [ok |-> TRUE, frame |-> f]

map_range(value, input_min, input_max, output_min, output_max) ==
    LET proportion   == RDiv(RSub(value, input_min), RSub(input_max, input_min))
        mapped_value == RAdd(output_min, RMul(proportion, RSub(output_max, output_min)))
    IN  RMax(RMin(mapped_value, output_max), output_min)

set_servo_pwm_unchecked(channel, on_time, off_time) ==
    Command([op |-> "s", channel |-> channel, on_time |-> on_time, off_time |-> off_time])
set_servo_pwm(channel, on_time, off_time) ==
    IF ~(0 <= channel /\ channel <= 15) THEN ValueError
    ELSE IF ~(0 <= on_time /\ on_time <= 4095) \/ ~(0 <= off_time /\ off_time <= 4095)
         THEN ValueError
    ELSE Command([op |-> "s", channel |-> channel, on_time |-> on_time,
                  off_time |-> off_time])

set_servo_angle_uncalibrated(channel, angle) == set_servo_pwm(channel, 0, round(angle))
set_servo_angle(channel, angle) ==
    IF channel \notin DOMAIN SERVO_TIMINGS THEN ValueError
    ELSE LET timing   == SERVO_TIMINGS[channel]
             off_time == map_range(angle, R(0), R(360), R(timing[1]), R(timing[2]))
         IN  set_servo_pwm(channel, 0, round(off_time))

set_inverse_kinematics(x_dot, y_dot, theta_dot) ==
    Command([op |-> "k", x_dot |-> x_dot, y_dot |-> y_dot, theta_dot |-> theta_dot])

set_wheel_speeds(speeds) == Command([op |-> "u", speeds |-> speeds])

stop_all_steppers_ping == Command([op |-> "p"])
stop_all_steppers == Command([op |-> "x"])

\* ------------------------------------------------------------- the bridge
cubic_easing(value) == RMul(value, RMul(value, value))

\* A websocket text message: either not a JSON document of the expected shape,
\* or a JSON object whose members may be missing.
Malformed == [wellformed |-> FALSE]
Json(joystick, sliders) ==
    [wellformed |-> TRUE, joystick |-> joystick, sliders |-> sliders]

\* {"joystick":{"x":1.0,"y":0.0},"sliders":{"Elevator":0.0,"Claw":0.0,"w":0.0}}
MsgFull    == Json([x |-> R(1), y |-> R(0)],
                   [Elevator |-> R(0), Claw |-> R(0), omega |-> R(0)])
\* {"joystick":{"y":-0.5},"sliders":{"Elevator":-1.0,"Claw":0.5}}
MsgPartial == Json([y |-> Rat(-1, 2)], [Elevator |-> R(-1), Claw |-> Rat(1, 2)])
Messages   == {MsgFull, MsgPartial, Malformed}

Member(obj, name, default) == IF name \in DOMAIN obj THEN obj[name] ELSE default

\* ClientData.model_validate_json: missing members take their defaults (0.0),
\* the slider members are read under their aliases, JSON numbers become floats.
model_validate_json(json) ==
    IF ~json.wellformed THEN [ok |-> FALSE, error |-> "ValidationError"]
    ELSE LET number(obj, name) == float(Member(obj, name, <<0, 1>>))
         IN  [ok |-> TRUE,
              joystick |-> [x |-> number(json.joystick, "x"),
                            y |-> number(json.joystick, "y")],
              sliders  |-> [elevator_position |-> number(json.sliders, "Elevator"),
                            claw_position     |-> number(json.sliders, "Claw"),
                            omega             |-> number(json.sliders, "omega")]]
\* ------------------------------------------------------------------ state
VARIABLES
    connected_client,  \* server.py global: the connection holding the slot, or None
    pc,                \* per connection: where its handle_connection coroutine is
    running,           \* the coroutine that holds the event loop, or None
    arrived,           \* per connection: the messages received from the client, in order
    nread,             \* per connection: how many of them the handler has taken
    closed,            \* per connection: the client went away (close or network error)
    message,           \* per connection: the message being processed
    data,              \* per connection: the parsed ClientData being processed
    wire,              \* frames written to the serial port, in order
    cause,             \* history: why the handler left its frame loop
    stops,             \* history: calls of stop_all_steppers by the handler's finally
    frees,             \* history: times the handler's finally freed the slot
    nok,               \* history: control frames the handler processed to the end
    tpc,               \* per thread: where it is in send_command / receive_data
    lock,              \* NucleoInterface.lock: the thread holding it, or None
    op,                \* per thread: the send_command / receive_data call in progress
    progress,          \* per thread: calls issued, bytes of the current frame written
    device,            \* history: what happened on the serial device, in order
    call,              \* per thread: the public method in progress (ping, ...)
    received,          \* per thread: what its last receive_data returned
    result,            \* per thread: what its last public method returned or raised
    rx,                \* the serial port's input buffer: bytes sent by the board
    requests,          \* complete frames the board has received and not yet answered
    is_open,           \* serial_port.is_open
    input, output      \* FnSpec: the arguments of a function call and its result

serverVars == <<connected_client, pc, running, arrived, nread, closed, message,
                data, wire, cause, stops, frees, nok>>
linkVars   == <<tpc, lock, op, progress, device, call, received, result, rx,
                requests, is_open>>
fnVars     == <<input, output>>
vars       == <<connected_client, pc, running, arrived, nread, closed, message,
                data, wire, cause, stops, frees, nok, tpc, lock, op, progress, device,
                call, received, result, rx, requests, is_open, input, output>>

NoData == [ok |-> FALSE, error |-> "none"]

\* The places where handle_connection gives the event loop to other coroutines,
\* and the places where it has ended.
AwaitPoints_SetAfterAwait == {"closing", "recv", "set"}
AwaitPoints_StopAwaited   == {"closing", "recv", "free"}
AwaitPoints == {"closing", "recv"}
Ended       == {"rejected", "done", "raised"}

\* The coroutine that holds the loop once handler h has moved to p.
Next_running(h, p) == IF p \in AwaitPoints \cup Ended THEN None ELSE h

Scheduled(h) == running \in {None, h}

\* One serial write of a handler: the frame reaches the wire, or write() raises.
\* by is history: the connection whose handler wrote the frame.
send_command(w, frame, h, ok) ==
    IF ok THEN Append(w, frame @@ [by |-> h]) ELSE w

ServerInit ==
    /\ connected_client = None
    /\ pc = [h \in Handlers |-> "start"]
    /\ running = None
    /\ arrived = [h \in Handlers |-> <<>>]
    /\ nread = [h \in Handlers |-> 0]
    /\ closed = [h \in Handlers |-> FALSE]
    /\ message = [h \in Handlers |-> Malformed]
    /\ data = [h \in Handlers |-> NoData]
    /\ wire = <<>>
    /\ cause = [h \in Handlers |-> "none"]
    /\ stops = [h \in Handlers |-> 0]
    /\ frees = [h \in Handlers |-> 0]
    /\ nok = [h \in Handlers |-> 0]

Goto(h, p) ==
    /\ pc' = [pc EXCEPT ![h] = p]
    /\ running' = Next_running(h, p)

\* The handler leaves its frame loop for the finally block.
Leave(h, why) ==
    /\ cause' = [cause EXCEPT ![h] = why]
    /\ Goto(h, "stop")

\* ----------------------------------------------------------- environment
\* Connections are numbered in the order the server accepts them.
TotalArrived == LET RECURSIVE Sum(_)
                    Sum(n) == IF n = 0 THEN 0 ELSE Len(arrived[n]) + Sum(n - 1)
                IN  Sum(NumHandlers)

\* The client of connection h sends a message (the library queues it).
Arrive(h, m) ==
    /\ running = None
    /\ pc[h] \notin Ended \cup {"start"}
    /\ ~closed[h]
    /\ TotalArrived < MaxMsgs
    /\ arrived' = [arrived EXCEPT ![h] = Append(@, m)]
    /\ UNCHANGED <<connected_client, pc, running, nread, closed, message, data,
                   wire, cause, stops, frees, nok, linkVars, fnVars>>

\* The client of connection h closes, or its connection breaks.
Disconnect(h) ==
    /\ running = None
    /\ pc[h] \notin Ended \cup {"start"}
    /\ ~closed[h]
    /\ closed' = [closed EXCEPT ![h] = TRUE]
    /\ UNCHANGED <<connected_client, pc, running, arrived, nread, message, data,
                   wire, cause, stops, frees, nok, linkVars, fnVars>>

\* ---------------------------------------------------- handle_connection
\* if connected_client is not None:
Check(h) ==
    /\ pc[h] = "start"
    /\ Scheduled(h)
    /\ \A g \in Handlers : g < h => pc[g] # "start"
    /\ Goto(h, IF connected_client # None THEN "closing" ELSE "set")
    /\ UNCHANGED <<connected_client, arrived, nread, closed, message, data, wire,
                   cause, stops, frees, nok, linkVars, fnVars>>

\* What the rejected handler's return does to the slot and the wire: nothing,
\* the return is outside the try block.
Rejected_finally(client, w, h) ==
    [client |-> None, wire |-> send_command(w, stop_all_steppers.frame, h, TRUE)]
Rejected(client, w, h) == [client |-> client, wire |-> w]

\* await websocket.close(reason=...); return
Reject(h) ==
    /\ pc[h] = "closing"
    /\ Scheduled(h)
    /\ connected_client' = Rejected(connected_client, wire, h).client
    /\ wire' = Rejected(connected_client, wire, h).wire
    /\ closed' = [closed EXCEPT ![h] = TRUE]
    /\ Goto(h, "rejected")
    /\ UNCHANGED <<arrived, nread, message, data, cause, stops, frees, nok, linkVars, fnVars>>

\* connected_client = websocket
Accept(h) ==
    /\ pc[h] = "set"
    /\ Scheduled(h)
    /\ connected_client' = h
    /\ Goto(h, "recv")
    /\ UNCHANGED <<arrived, nread, closed, message, data, wire, cause, stops,
                   frees, nok, linkVars, fnVars>>

\* async for message in websocket: the oldest message not yet taken.
NextMessage_newest(msgs, n) == msgs[Len(msgs)]
NextMessage(msgs, n) == msgs[n + 1]

Receive(h) ==
    /\ pc[h] = "recv"
    /\ Scheduled(h)
    /\ nread[h] < Len(arrived[h])
    /\ message' = [message EXCEPT ![h] = NextMessage(arrived[h], nread[h])]
    /\ nread' = [nread EXCEPT ![h] = @ + 1]
    /\ Goto(h, "parse")
    /\ UNCHANGED <<connected_client, arrived, closed, data, wire, cause, stops,
                   frees, nok, linkVars, fnVars>>

\* async for ends (clean close) or raises ConnectionClosed (caught): the queue
\* is empty and the connection is closed.
ConnectionClosed(h) ==
    /\ pc[h] = "recv"
    /\ Scheduled(h)
    /\ nread[h] = Len(arrived[h])
    /\ closed[h]
    /\ Leave(h, "closed")
    /\ UNCHANGED <<connected_client, arrived, nread, closed, message, data, wire,
                   stops, frees, nok, linkVars, fnVars>>

\* data = ClientData.model_validate_json(message); a ValidationError is not caught.
Parse(h) ==
    /\ pc[h] = "parse"
    /\ Scheduled(h)
    /\ LET parsed == model_validate_json(message[h])
       IN  IF parsed.ok
           THEN /\ data' = [data EXCEPT ![h] = parsed]
                /\ Goto(h, "ik")
                /\ UNCHANGED cause
           ELSE /\ Leave(h, "parse")
                /\ UNCHANGED data
    /\ UNCHANGED <<connected_client, arrived, nread, closed, message, wire, stops,
                   frees, nok, linkVars, fnVars>>
\* Lines 62-81: easing, scaling, the inverse kinematics command.
InverseKinematics(d) ==
    LET x_dot     == RMul(cubic_easing(d.joystick.x), R(LINEAR_SPEED_LIMIT))
        y_dot     == RMul(cubic_easing(d.joystick.y), R(LINEAR_SPEED_LIMIT))
        theta_dot == RMul(cubic_easing(d.sliders.omega), R(ANGULAR_SPEED_LIMIT))
    IN  set_inverse_kinematics(x_dot, y_dot, theta_dot)

\* Lines 84-93: slider to angle to servo command.
ElevatorServo(d) ==
    set_servo_angle(ELEVATOR_CHANNEL,
                    map_range(d.sliders.elevator_position, R(-1), R(1), R(0), R(360)))

ClawServo(d) ==
    set_servo_angle(CLAW_CHANNEL,
                    map_range(d.sliders.claw_position, R(-1), R(1), R(0), R(360)))

\* One command of the frame loop. A ValueError or a failed serial write is an
\* exception nothing in the loop catches: the handler leaves for the finally.
Send(h, cmd, then) ==
    IF ~cmd.ok
    THEN /\ Leave(h, "value")
         /\ UNCHANGED wire
    ELSE \E ok \in BOOLEAN :
            /\ wire' = send_command(wire, cmd.frame, h, ok)
            /\ IF ok THEN Goto(h, then) /\ UNCHANGED cause
                     ELSE Leave(h, "send")

\* nucleo.set_inverse_kinematics(x_dot, y_dot, theta_dot)
SendIK(h) ==
    /\ pc[h] = "ik"
    /\ Scheduled(h)
    /\ Send(h, InverseKinematics(data[h]), "elev")
    /\ UNCHANGED <<connected_client, arrived, nread, closed, message, data, stops,
                   frees, nok, linkVars, fnVars>>

\* nucleo.set_servo_angle(ELEVATOR_CHANNEL, elevator_angle)
SendElevator(h) ==
    /\ pc[h] = "elev"
    /\ Scheduled(h)
    /\ Send(h, ElevatorServo(data[h]), "claw")
    /\ UNCHANGED <<connected_client, arrived, nread, closed, message, data, stops,
                   frees, nok, linkVars, fnVars>>

\* nucleo.set_servo_angle(CLAW_CHANNEL, claw_angle), then back to async for
SendClaw(h) ==
    /\ pc[h] = "claw"
    /\ Scheduled(h)
    /\ Send(h, ClawServo(data[h]), "recv")
    /\ nok' = [nok EXCEPT ![h] = IF pc'[h] = "recv" THEN @ + 1 ELSE @]
    /\ UNCHANGED <<connected_client, arrived, nread, closed, message, data, stops,
                   frees, linkVars, fnVars>>

\* finally: nucleo.stop_all_steppers(). If the write raises, the exception
\* leaves the finally block and the handler: line 103 is not run.
Stop(h) ==
    /\ pc[h] = "stop"
    /\ Scheduled(h)
    /\ stops' = [stops EXCEPT ![h] = @ + 1]
    /\ \E ok \in BOOLEAN :
          /\ wire' = send_command(wire, stop_all_steppers.frame, h, ok)
          /\ Goto(h, IF ok THEN "free" ELSE "raised")
    /\ UNCHANGED <<connected_client, arrived, nread, closed, message, data, cause,
                   frees, nok, linkVars, fnVars>>

\* finally: connected_client = None
Free(h) ==
    /\ pc[h] = "free"
    /\ Scheduled(h)
    /\ connected_client' = None
    /\ frees' = [frees EXCEPT ![h] = @ + 1]
    /\ Goto(h, "done")
    /\ UNCHANGED <<arrived, nread, closed, message, data, wire, cause, stops, nok,
                   linkVars, fnVars>>

\* ------------------------------------------------------------ serial link
\* command_byte.encode("ascii"), the header b"M" and the literal b"pong"
Ascii == [c \in {"M", "s", "a", "u", "x", "p", "k", "o", "n", "g"} |->
            CASE c = "M" -> 77 [] c = "s" -> 115 [] c = "a" -> 97 [] c = "u" -> 117
              [] c = "x" -> 120 [] c = "p" -> 112 [] c = "k" -> 107
              [] c = "o" -> 111 [] c = "n" -> 110 [] c = "g" -> 103]

\* header + command + data_bytes
FrameBytes(command_byte, data_bytes) ==
    <<Ascii["M"]>> \o <<Ascii[command_byte]>> \o data_bytes

SendCall(command_byte, data_bytes) ==
    [kind |-> "send", command_byte |-> command_byte, data_bytes |-> data_bytes,
     num_bytes |-> 0]
RecvCall(num_bytes) ==
    [kind |-> "recv", command_byte |-> "", data_bytes |-> <<>>, num_bytes |-> num_bytes]

\* The send_command / receive_data calls the threads of LinkSpec issue.
LinkOps ==
    { SendCall("x", <<>>), SendCall("s", <<1, 0, 0, 44, 1>>), RecvCall(4) }

NoOp     == [kind |-> "none", command_byte |-> "", data_bytes |-> <<>>, num_bytes |-> 0]
NoCall   == [method |-> "none", phase |-> "none", count |-> 0]
NoResult == [kind |-> "none"]

LinkIdle ==
    /\ tpc = [t \in Threads |-> "idle"]
    /\ lock = None
    /\ op = [t \in Threads |-> NoOp]
    /\ progress = [t \in Threads |-> [ops |-> 0, bytes |-> 0]]
    /\ device = <<>>
    /\ call = [t \in Threads |-> NoCall]
    /\ received = [t \in Threads |-> <<>>]
    /\ result = [t \in Threads |-> NoResult]
    /\ rx = <<>>
    /\ requests = <<>>
    /\ is_open = TRUE

\* threading.Lock: acquire() succeeds only while nobody holds the lock.
CanAcquire_unguarded(holder) == TRUE
CanAcquire(holder) == holder = None

\* Leaving "with self.lock" releases the lock, also when an exception leaves it.
ExitWith_leak(holder, raised) == IF raised THEN holder ELSE None
ExitWith(holder, raised) == None

TotalOps == LET RECURSIVE Sum(_)
                Sum(n) == IF n = 0 THEN 0 ELSE progress[n].ops + Sum(n - 1)
            IN  Sum(NumThreads)

\* A thread calls send_command or receive_data.
Call(t, o) ==
    /\ tpc[t] = "idle"
    /\ TotalOps < MaxOps
    /\ op' = [op EXCEPT ![t] = o]
    /\ progress' = [progress EXCEPT ![t] = [ops |-> @.ops + 1, bytes |-> 0]]
    /\ tpc' = [tpc EXCEPT ![t] = "lock"]
    /\ UNCHANGED <<lock, device, call, received, result, rx, requests, is_open,
                   serverVars, fnVars>>

\* The device call inside the with block. LinkSpec follows a bare call byte by
\* byte; QuerySpec follows the calls of a public method frame by frame.
InWith(o, c) ==
    IF c.method = "none" THEN (IF o.kind = "send" THEN "write" ELSE "read")
    ELSE (IF o.kind = "send" THEN "send_frame" ELSE "receive")

\* with self.lock:
Acquire(t) ==
    /\ tpc[t] = "lock"
    /\ CanAcquire(lock)
    /\ lock' = t
    /\ tpc' = [tpc EXCEPT ![t] = InWith(op[t], call[t])]
    /\ UNCHANGED <<op, progress, device, call, received, result, rx, requests,
                   is_open, serverVars, fnVars>>

Event(t, kind, byte) ==
    [t |-> t, n |-> progress[t].ops, kind |-> kind, byte |-> byte]

\* self.serial_port.write(header + command + data_bytes): the bytes leave one
\* after the other.
WriteByte(t) ==
    /\ tpc[t] = "write"
    /\ LET bytes == FrameBytes(op[t].command_byte, op[t].data_bytes)
           i     == progress[t].bytes + 1
       IN  /\ device' = Append(device, Event(t, "w", bytes[i]))
           /\ progress' = [progress EXCEPT ![t].bytes = i]
           /\ tpc' = [tpc EXCEPT ![t] = IF i = Len(bytes) THEN "unlock" ELSE "write"]
    /\ UNCHANGED <<lock, op, call, received, result, rx, requests, is_open,
                   serverVars, fnVars>>

\* write() raises (device error): the exception leaves the with block.
WriteRaises(t) ==
    /\ tpc[t] = "write"
    /\ tpc' = [tpc EXCEPT ![t] = "unwind"]
    /\ UNCHANGED <<lock, op, progress, device, call, received, result, rx, requests,
                   is_open, serverVars, fnVars>>

\* data = self.serial_port.read(num_bytes): the read starts, and returns at
\* the latest when the timeout expires.
ReadStart(t) ==
    /\ tpc[t] = "read"
    /\ device' = Append(device, Event(t, "r", 0))
    /\ tpc' = [tpc EXCEPT ![t] = "reading"]
    /\ UNCHANGED <<lock, op, progress, call, received, result, rx, requests, is_open,
                   serverVars, fnVars>>

ReadEnd(t) ==
    /\ tpc[t] = "reading"
    /\ device' = Append(device, Event(t, "r", 1))
    /\ tpc' = [tpc EXCEPT ![t] = "unlock"]
    /\ UNCHANGED <<lock, op, progress, call, received, result, rx, requests, is_open,
                   serverVars, fnVars>>

\* self.serial_port.write(header + command + data_bytes) of a public method:
\* the board has the frame (its opcode is the frame's second byte).
SendFrame(t) ==
    /\ tpc[t] = "send_frame"
    /\ is_open
    /\ LET bytes == FrameBytes(op[t].command_byte, op[t].data_bytes)
       IN  requests' = Append(requests, [t |-> t, command |-> bytes[2]])
    /\ tpc' = [tpc EXCEPT ![t] = "unlock"]
    /\ UNCHANGED <<lock, op, progress, device, call, received, result, rx, is_open,
                   serverVars, fnVars>>

\* write() raises (device error, port closed): the exception leaves the with block.
SendRaises(t) ==
    /\ tpc[t] = "send_frame"
    /\ tpc' = [tpc EXCEPT ![t] = "unwind"]
    /\ UNCHANGED <<lock, op, progress, device, call, received, result, rx, requests,
                   is_open, serverVars, fnVars>>

\* data = self.serial_port.read(num_bytes) of a public method: when the timeout
\* expires it returns the bytes that have arrived, at most num_bytes.
ReceiveData(t) ==
    /\ tpc[t] = "receive"
    /\ is_open
    /\ LET k == IF Len(rx) < op[t].num_bytes THEN Len(rx) ELSE op[t].num_bytes
       IN  /\ received' = [received EXCEPT ![t] = SubSeq(rx, 1, k)]
           /\ rx' = SubSeq(rx, k + 1, Len(rx))
    /\ tpc' = [tpc EXCEPT ![t] = "unlock"]
    /\ UNCHANGED <<lock, op, progress, device, call, result, requests, is_open,
                   serverVars, fnVars>>

\* read() raises (device error, port closed): the exception leaves the with block.
ReceiveRaises(t) ==
    /\ tpc[t] = "receive"
    /\ tpc' = [tpc EXCEPT ![t] = "unwind"]
    /\ UNCHANGED <<lock, op, progress, device, call, received, result, rx, requests,
                   is_open, serverVars, fnVars>>

\* ------------------------------------------------------- struct formats
\* struct.pack("<B"), ("<H"), ("<i"): little-endian, two's complement.
pack_B(v) == <<v>>
pack_i(v) ==
    LET b1 == v % 256
        r1 == (v - b1) \div 256
        b2 == r1 % 256
        r2 == (r1 - b2) \div 256
        b3 == r2 % 256
        r3 == (r2 - b3) \div 256
    IN  <<b1, b2, b3, r3 % 256>>
pack_H_wide(v) == pack_i(v)
pack_H(v) == <<v % 256, v \div 256>>

\* struct.unpack("<i"): four little-endian bytes as a signed 32-bit integer.
unpack_i_short(b) == b[1] + 256 * b[2]
unpack_i(b) ==
    b[1] + 256 * b[2] + 65536 * b[3]
         + 16777216 * (IF b[4] >= 128 THEN b[4] - 256 ELSE b[4])

\* struct.pack("<d"): the IEEE-754 double nearest to x (ties to even), least
\* significant byte first. x is a rational <<n, d>> in the normal range.
\* The next 4 binary digits of r / d (0 <= r < d), and the remainder left.
Nibble(r, d) ==
    LET b1 == IF 2 * r >= d THEN 1 ELSE 0
        r1 == 2 * r - b1 * d
        b2 == IF 2 * r1 >= d THEN 1 ELSE 0
        r2 == 2 * r1 - b2 * d
        b3 == IF 2 * r2 >= d THEN 1 ELSE 0
        r3 == 2 * r2 - b3 * d
        b4 == IF 2 * r3 >= d THEN 1 ELSE 0
    IN  [bits |-> <<b1, b2, b3, b4>>, rem |-> 2 * r3 - b4 * d]

\* The first 4 * k binary digits of r / d, and the remainder left: the first
\* four, then the digits of what they leave.
RECURSIVE Digits(_, _, _)
Join(first, rest) == [bits |-> first.bits \o rest.bits, rem |-> rest.rem]
Continue(first, d, k) == Join(first, Digits(first.rem, d, k - 1))
Digits(r, d, k) ==
    IF k = 0 THEN [bits |-> <<>>, rem |-> r] ELSE Continue(Nibble(r, d), d, k)

\* bits + 1 on binary digits, most significant first; all zero on a carry out.
Increment(bits) ==
    LET zeros == { i \in DOMAIN bits : bits[i] = 0 }
        last  == IF zeros = {} THEN 0 ELSE CHOOSE i \in zeros : \A j \in zeros : j <= i
    IN  [i \in DOMAIN bits |-> IF i < last THEN bits[i] ELSE IF i = last THEN 1 ELSE 0]

\* k binary digits of the natural number v, most significant first.
ToBits(v, k) == [i \in 1..k |-> (v \div 2 ^ (k - i)) % 2]

\* The byte made of 8 binary digits.
FromBits(bits) ==
    128 * bits[1] + 64 * bits[2] + 32 * bits[3] + 16 * bits[4]
        + 8 * bits[5] + 4 * bits[6] + 2 * bits[7] + bits[8]

\* Sign bit, 11 exponent bits and 52 fraction bits as 8 bytes, last byte first.
Layout(negative, expo, frac) ==
    [k \in 1..8 |-> FromBits(SubSeq(<<IF negative THEN 1 ELSE 0>> \o ToBits(expo, 11) \o frac,
                                    65 - 8 * k, 72 - 8 * k))]

\* 1.frac * 2^e, rounded up by one last digit when up; all ones round up to
\* the next power of two.
Rounded(negative, e, frac, up) ==
    IF ~up THEN Layout(negative, e + 1023, frac)
    ELSE IF \A i \in 1..52 : frac[i] = 1 THEN Layout(negative, e + 1024, Increment(frac))
    ELSE Layout(negative, e + 1023, Increment(frac))

\* The 52 digits after the leading 1 of num / den (1 <= num / den < 2), rounded
\* to nearest by what they leave, ties to the even one.
Normalised(negative, e, digs, den) ==
    Rounded(negative, e, digs.bits,
            2 * digs.rem > den \/ (2 * digs.rem = den /\ digs.bits[52] = 1))

Encode(x, e, a) ==
    Normalised(x[1] < 0, e,
               Digits((IF e < 0 THEN a * 2 ^ (-e) ELSE a) - (IF e > 0 THEN x[2] * 2 ^ e ELSE x[2]),
                      IF e > 0 THEN x[2] * 2 ^ e ELSE x[2], 13),
               IF e > 0 THEN x[2] * 2 ^ e ELSE x[2])

pack_d(x) ==
    IF x[1] = 0 THEN <<0, 0, 0, 0, 0, 0, 0, 0>>
    ELSE Encode(x, Exponent(Abs(x[1]), x[2]), Abs(x[1]))

\* ---------------------------------------------------------------- the board
\* The board answers the frames it has received in order: 'p' with b"pong",
\* 'a' with three little-endian i32 tick counts, the others with nothing. A
\* reply may be lost, cut short or garbled. Each byte of the input buffer
\* carries history: the thread whose request it answers, its position in the
\* reply, and the tick counts the reply encodes.
TickTriples == { <<0, 2048, 4096>>, <<-1, -4096, 1>> }
NoTicks     == <<0, 0, 0>>

pong == <<Ascii["p"], Ascii["o"], Ascii["n"], Ascii["g"]>>
pang == <<Ascii["p"], Ascii["a"], Ascii["n"], Ascii["g"]>>

AngleReply(ticks) == pack_i(ticks[1]) \o pack_i(ticks[2]) \o pack_i(ticks[3])

Replies(command) ==
    IF command = Ascii["p"]
    THEN { [bytes |-> b, ticks |-> NoTicks] : b \in {pong, pang, SubSeq(pong, 1, 3)} }
    ELSE IF command = Ascii["a"]
    THEN { [bytes |-> AngleReply(T), ticks |-> T] : T \in TickTriples }
         \cup { [bytes |-> SubSeq(AngleReply(<<0, 2048, 4096>>), 1, 8),
                 ticks |-> <<0, 2048, 4096>>] }
    ELSE { [bytes |-> <<>>, ticks |-> NoTicks] }

Tagged(reply, t) ==
    [i \in 1..Len(reply.bytes) |->
        [byte |-> reply.bytes[i], req |-> t, pos |-> i, ticks |-> reply.ticks]]

BoardReply ==
    /\ requests # <<>>
    /\ \E reply \in Replies(Head(requests).command) :
          rx' = rx \o Tagged(reply, Head(requests).t)
    /\ requests' = Tail(requests)
    /\ UNCHANGED <<tpc, lock, op, progress, device, call, received, result, is_open,
                   serverVars, fnVars>>

\* ---------------------------------------------------------- public methods
Methods == {"ping", "read_angles", "close"}

\* The frame each method sends first: ping 'p', read_angles 'a', close the
\* 'x' of stop_all_steppers.
Request(method) ==
    CASE method = "ping"        -> SendCall("p", <<>>)
      [] method = "read_angles" -> SendCall("a", <<>>)
      [] method = "close"       -> SendCall(stop_all_steppers.frame.op, <<>>)

\* The receive_data call of a query: ping reads 4 bytes, read_angles 12.
Response(method) == IF method = "ping" THEN RecvCall(4) ELSE RecvCall(12)

Returned(value) == [kind |-> "returned", value |-> value]
Raised(error)   == [kind |-> "raised", error |-> error]
Pending         == [kind |-> "pending"]

Bytes(buf) == [i \in 1..Len(buf) |-> buf[i].byte]

\* ping, after its receive_data: True iff the data is b"pong".
ping_returns_any(buf) == Returned(Len(buf) > 0)
ping_returns(buf) == Returned(Bytes(buf) = pong)

\* angle / 4096 * 360, as a whole number of degrees plus a fraction in [0, 1)
\* (a 32-bit tick count times 360 does not fit the model's integers). A double
\* holds both results exactly: the quotient is a 32-bit integer scaled by
\* 2^-12, its product with 360 has at most 40 significant binary digits.
Degrees(angle) ==
    LET q == angle \div 4096
        r == angle % 4096
    IN  [whole |-> q * 360 + (r * 360) \div 4096,
         frac  |-> Rat((r * 360) % 4096, 4096)]

\* read_angles, after its receive_data: IOError unless 12 bytes came.
read_angles_returns(buf) ==
    IF Len(buf) # 12 THEN Raised("IOError")
    ELSE LET b == Bytes(buf)
         IN  Returned([i \in 1..3 |-> Degrees(unpack_i(SubSeq(b, 4 * i - 3, 4 * i)))])

TotalCalls == LET RECURSIVE Sum(_)
                  Sum(n) == IF n = 0 THEN 0 ELSE call[n].count + Sum(n - 1)
              IN  Sum(NumThreads)

\* What close() does to the port when its stop_all_steppers() raised: nothing,
\* the exception leaves close() before serial_port.close().
CloseAfterFailedStop(open) == open

\* A thread calls ping(), read_angles() or close(). close() on a port that is
\* not open does nothing; every other call starts with a send_command. Threads
\* are numbered in the order of their first call.
CallMethod(t, m) ==
    /\ tpc[t] = "idle"
    /\ TotalCalls < MaxQueries
    /\ \A u \in Threads : u < t => call[u].count > 0
    /\ IF m = "close" /\ ~is_open
       THEN /\ call' = [call EXCEPT ![t] = [method |-> m, phase |-> "done",
                                            count |-> @.count + 1]]
            /\ result' = [result EXCEPT ![t] = Returned("None")]
            /\ UNCHANGED <<tpc, op>>
       ELSE /\ call' = [call EXCEPT ![t] = [method |-> m, phase |-> "send",
                                            count |-> @.count + 1]]
            /\ result' = [result EXCEPT ![t] = Pending]
            /\ op' = [op EXCEPT ![t] = Request(m)]
            /\ tpc' = [tpc EXCEPT ![t] = "lock"]
    /\ UNCHANGED <<lock, progress, device, received, rx, requests, is_open,
                   serverVars, fnVars>>

\* What the thread does after the with block, up to its next access to the
\* lock or the port. These steps touch nothing another thread reads, so they
\* are part of the Release step.

\* A bare send_command / receive_data call of LinkSpec is over.
BareCallEnds(t) ==
    /\ call[t].method = "none"
    /\ tpc' = [tpc EXCEPT ![t] = "idle"]
    /\ UNCHANGED <<op, progress, call, received, result, is_open>>

\* An exception of send_command / receive_data is caught by none of the
\* methods: it leaves the method.
Propagate(t) ==
    /\ call[t].method # "none"
    /\ tpc[t] = "unwind"
    /\ call' = [call EXCEPT ![t].phase = "done"]
    /\ is_open' = IF call[t].method = "close" THEN CloseAfterFailedStop(is_open)
                  ELSE is_open
    /\ result' = [result EXCEPT ![t] = Raised("SerialException")]
    /\ tpc' = [tpc EXCEPT ![t] = "idle"]
    /\ op' = [op EXCEPT ![t] = NoOp]
    /\ received' = [received EXCEPT ![t] = <<>>]
    /\ UNCHANGED progress

\* data = self.receive_data(4) in ping, self.receive_data(12) in read_angles
QueryReceive(t) ==
    /\ call[t].method \in {"ping", "read_angles"}
    /\ tpc[t] = "unlock"
    /\ call[t].phase = "send"
    /\ call' = [call EXCEPT ![t].phase = "recv"]
    /\ op' = [op EXCEPT ![t] = Response(call[t].method)]
    /\ tpc' = [tpc EXCEPT ![t] = "lock"]
    /\ UNCHANGED <<progress, received, result, is_open>>

\* The query decodes what it received and returns (or raises IOError).
Return(t) ==
    /\ call[t].method \in {"ping", "read_angles"}
    /\ tpc[t] = "unlock"
    /\ call[t].phase = "recv"
    /\ call' = [call EXCEPT ![t].phase = "done"]
    /\ result' = [result EXCEPT ![t] =
                     IF call[t].method = "ping" THEN ping_returns(received[t])
                     ELSE read_angles_returns(received[t])]
    /\ tpc' = [tpc EXCEPT ![t] = "idle"]
    /\ op' = [op EXCEPT ![t] = NoOp]
    /\ received' = [received EXCEPT ![t] = <<>>]
    /\ UNCHANGED <<progress, is_open>>

\* close(): stop_all_steppers() has returned, self.serial_port.close() is next.
StopReturns(t) ==
    /\ call[t].method = "close"
    /\ tpc[t] = "unlock"
    /\ tpc' = [tpc EXCEPT ![t] = "closing"]
    /\ op' = [op EXCEPT ![t] = NoOp]
    /\ UNCHANGED <<progress, call, received, result, is_open>>

\* Leaving the with block releases the lock.
Release(t) ==
    /\ tpc[t] \in {"unlock", "unwind"}
    /\ lock' = ExitWith(lock, tpc[t] = "unwind")
    /\ \/ BareCallEnds(t)
       \/ Propagate(t)
       \/ QueryReceive(t)
       \/ Return(t)
       \/ StopReturns(t)
    /\ UNCHANGED <<device, rx, requests, serverVars, fnVars>>

\* close(): self.serial_port.close()
ClosePort(t) ==
    /\ tpc[t] = "closing"
    /\ call' = [call EXCEPT ![t].phase = "done"]
    /\ is_open' = FALSE
    /\ result' = [result EXCEPT ![t] = Returned("None")]
    /\ tpc' = [tpc EXCEPT ![t] = "idle"]
    /\ UNCHANGED <<lock, op, progress, device, received, rx, requests, serverVars,
                   fnVars>>

\* ------------------------------------------------- the operations alone
\* data_bytes of each typed command: struct.pack("<BHH"), ("<iii"), ("<ddd"),
\* and the default b"" of send_command.
Payload(frame) ==
    CASE frame.op = "s" ->
            pack_B(frame.channel) \o pack_H(frame.on_time) \o pack_H(frame.off_time)
      [] frame.op = "u" ->
            pack_i(frame.speeds[1]) \o pack_i(frame.speeds[2]) \o pack_i(frame.speeds[3])
      [] frame.op = "k" ->
            pack_d(frame.x_dot) \o pack_d(frame.y_dot) \o pack_d(frame.theta_dot)
      [] OTHER -> <<>>

\* What one call writes to the serial port: the frame of its command, or
\* nothing when the call raised before send_command.
Written(cmd) ==
    IF cmd.ok THEN <<FrameBytes(cmd.frame.op, Payload(cmd.frame))>> ELSE <<>>

\* JSON numbers, float arguments, and ranges for map_range: the three the
\* program uses and (-2.0, 0.9).
Values == { Rat(k, Grid) : k \in (-2 * Grid)..(2 * Grid) }
Ranges == { <<R(-1), R(1)>>, <<R(0), R(360)>>, <<R(100), R(470)>>,
            <<R(-2), float(Rat(9, 10))>> }
Points == { float(v) : v \in Values } \cup { R(n) : n \in {90, 180, 285, 360, 470, 500} }

PwmChannels == {-1, 0, 1, 15, 16}
PwmTimes    == {-1, 0, 300, 4095, 4096}
Speeds      == { <<0, 0, 0>>, <<1, -1, 256>>, <<100000, -100000, 65535>> }
NoArgs      == {"read_angles", "stop_all_steppers", "ping"}

FnInputs ==
    { [fn |-> "map_range", input_min |-> i[1], input_max |-> i[2],
       output_min |-> o[1], output_max |-> o[2]] : i \in Ranges, o \in Ranges }
    \cup { [fn |-> "set_servo_pwm", channel |-> c, on_time |-> on, off_time |-> off] :
              c \in PwmChannels, on \in PwmTimes, off \in PwmTimes }
    \cup { [fn |-> "sliders", message |-> Json([x |-> R(0)], [Elevator |-> e, Claw |-> c])] :
              e \in Values, c \in Values }
    \cup { [fn |-> "set_wheel_speeds", speeds |-> v] : v \in Speeds }
    \cup { [fn |-> "set_inverse_kinematics", message |-> Json([x |-> v, y |-> w], [omega |-> v])] :
              v \in Values, w \in {R(0), Rat(-1, 3)} }
    \cup { [fn |-> f] : f \in NoArgs }

NotCalled == [fn |-> "none"]

FnInit ==
    /\ ServerInit
    /\ LinkIdle
    /\ input \in FnInputs
    /\ output = NotCalled

\* map_range(value, input_min, input_max, output_min, output_max), called
\* with one value after the other on the same ranges.
CallMapRange(value) ==
    /\ input.fn = "map_range"
    /\ LET calls == IF output = NotCalled THEN <<>> ELSE output.calls
       IN  /\ Len(calls) < MaxCalls
           /\ output' = [fn |-> "map_range",
                         calls |-> Append(calls,
                            [value |-> value,
                             result |-> map_range(value, input.input_min, input.input_max,
                                                  input.output_min, input.output_max)])]
    /\ UNCHANGED <<input, serverVars, linkVars>>

CallSetServoPwm ==
    /\ input.fn = "set_servo_pwm"
    /\ output = NotCalled
    /\ LET cmd == set_servo_pwm(input.channel, input.on_time, input.off_time)
       IN  output' = [fn |-> input.fn, result |-> cmd, written |-> Written(cmd)]
    /\ UNCHANGED <<input, serverVars, linkVars>>

\* server.py lines 84-93 on one parsed message: the elevator command, then the
\* claw command unless the elevator call raised.
CallSliders ==
    /\ input.fn = "sliders"
    /\ output = NotCalled
    /\ \E d \in {model_validate_json(input.message)} :
       \E elevator \in {ElevatorServo(d)}, claw \in {ClawServo(d)} :
          output' = [fn |-> input.fn,
                     commands |-> IF elevator.ok THEN <<elevator, claw>> ELSE <<elevator>>,
                     written |-> IF elevator.ok THEN Written(elevator) \o Written(claw)
                                 ELSE <<>>]
    /\ UNCHANGED <<input, serverVars, linkVars>>

CallSetWheelSpeeds ==
    /\ input.fn = "set_wheel_speeds"
    /\ output = NotCalled
    /\ LET cmd == set_wheel_speeds(input.speeds)
       IN  output' = [fn |-> input.fn, result |-> cmd, written |-> Written(cmd)]
    /\ UNCHANGED <<input, serverVars, linkVars>>

\* server.py lines 61-81 on one parsed message.
CallSetInverseKinematics ==
    /\ input.fn = "set_inverse_kinematics"
    /\ output = NotCalled
    /\ \E d \in {model_validate_json(input.message)} :
       \E cmd \in {InverseKinematics(d)} :
          output' = [fn |-> input.fn, result |-> cmd, written |-> Written(cmd)]
    /\ UNCHANGED <<input, serverVars, linkVars>>

\* The send_command of read_angles, stop_all_steppers and ping.
CallNoArg ==
    /\ input.fn \in NoArgs
    /\ output = NotCalled
    /\ LET request == CASE input.fn = "read_angles" -> Request("read_angles")
                        [] input.fn = "ping" -> Request("ping")
                        [] OTHER -> Request("close")
       IN  output' = [fn |-> input.fn,
                      written |-> <<FrameBytes(request.command_byte, request.data_bytes)>>]
    /\ UNCHANGED <<input, serverVars, linkVars>>

\* ---------------------------------------------------------- specifications
FnIdle == input = [fn |-> "none"] /\ output = [fn |-> "none"]

Init == ServerInit /\ LinkIdle /\ FnIdle

Next ==
    \/ \E h \in Handlers, m \in Messages : Arrive(h, m)
    \/ \E h \in Handlers : Disconnect(h)
    \/ \E h \in Handlers : Check(h)
    \/ \E h \in Handlers : Reject(h)
    \/ \E h \in Handlers : Accept(h)
    \/ \E h \in Handlers : Receive(h)
    \/ \E h \in Handlers : ConnectionClosed(h)
    \/ \E h \in Handlers : Parse(h)
    \/ \E h \in Handlers : SendIK(h)
    \/ \E h \in Handlers : SendElevator(h)
    \/ \E h \in Handlers : SendClaw(h)
    \/ \E h \in Handlers : Stop(h)
    \/ \E h \in Handlers : Free(h)

Spec == Init /\ [][Next]_vars

LinkNext ==
    \/ \E t \in Threads, o \in LinkOps : Call(t, o)
    \/ \E t \in Threads : Acquire(t)
    \/ \E t \in Threads : WriteByte(t)
    \/ \E t \in Threads : WriteRaises(t)
    \/ \E t \in Threads : ReadStart(t)
    \/ \E t \in Threads : ReadEnd(t)
    \/ \E t \in Threads : Release(t)

LinkSpec == Init /\ [][LinkNext]_vars

FnNext ==
    \/ \E value \in Points : CallMapRange(value)
    \/ CallSetServoPwm
    \/ CallSliders
    \/ CallSetWheelSpeeds
    \/ CallSetInverseKinematics
    \/ CallNoArg

FnSpec == FnInit /\ [][FnNext]_vars

QueryNext ==
    \/ \E t \in Threads, m \in Methods : CallMethod(t, m)
    \/ \E t \in Threads : Acquire(t)
    \/ \E t \in Threads : SendFrame(t)
    \/ \E t \in Threads : SendRaises(t)
    \/ \E t \in Threads : ReceiveData(t)
    \/ \E t \in Threads : ReceiveRaises(t)
    \/ \E t \in Threads : Release(t)
    \/ \E t \in Threads : ClosePort(t)
    \/ BoardReply

QuerySpec == Init /\ [][QueryNext]_vars
\* ------------------------------------------------------------- properties
\* The handler is between line 54 (slot taken) and the end of its finally.
InSession == {"recv", "parse", "ik", "elev", "claw", "stop", "free"}
\* The handler is in its frame loop.
InLoop    == {"recv", "parse", "ik", "elev", "claw"}

StopSent(h) == \E i \in 1..Len(wire) : wire[i].by = h /\ wire[i].op = "x"
Wrote(h)    == \E i \in 1..Len(wire) : wire[i].by = h

\* C1: at most one session is Active at any time: at most one handler is past
\* the slot check, and a handler in its frame loop (or its teardown) is the one
\* that holds connected_client.
C1_SingleActive ==
    /\ \A h \in Handlers : pc[h] \in InSession => connected_client = h
    /\ Cardinality({h \in Handlers : pc[h] \in InSession}) <= 1

C1_Witness ==
    \E h, g \in Handlers :
        /\ pc[h] = "ik" /\ connected_client = h
        /\ pc[g] = "rejected"

\* C2: every handler that was Active and has ended called stop_all_steppers
\* exactly once and freed the slot exactly once.
C2_StopOnceFreeOnce ==
    \A h \in Handlers :
        pc[h] \in {"done", "raised"} => stops[h] = 1 /\ frees[h] = 1

\* C3: when the StopAllSteppers write of a teardown fails, the failure stays
\* inside the teardown and the slot is freed all the same.
C3_FailedStopStillFrees ==
    \A h \in Handlers :
        (pc[h] \in Ended /\ stops[h] = 1 /\ ~StopSent(h)) =>
            pc[h] = "done" /\ connected_client # h

\* C4: a control frame that fails to parse is dropped and nothing else: the
\* session stays in its frame loop, holds the slot, and no stop is sent.
C4_ParseFailureKeepsSession ==
    \A h \in Handlers :
        cause[h] = "parse" =>
            pc[h] \in InLoop /\ connected_client = h /\ stops[h] = 0

\* C5: a failed send within a parsed control frame does not end the session:
\* the handler stays in its frame loop and no stop is sent.
C5_SendFailureKeepsSession ==
    \A h \in Handlers :
        cause[h] = "send" =>
            pc[h] \in InLoop /\ connected_client = h /\ stops[h] = 0

C7_RejectChangesNothing ==
    [][\A h \in Handlers :
          (pc'[h] # pc[h] /\ pc'[h] \in {"closing", "rejected"}) =>
              /\ pc'[h] = "closing" => connected_client \notin {None, h}
              /\ connected_client' = connected_client
              /\ wire' = wire
              /\ \A g \in Handlers \ {h} : pc'[g] = pc[g]
              /\ UNCHANGED <<arrived, nread, message, data, cause, stops, frees, nok>>
      ]_vars

C7_Witness ==
    \E h, g \in Handlers :
        /\ pc[g] = "rejected" /\ ~Wrote(g) /\ frees[g] = 0
        /\ connected_client = h /\ pc[h] = "recv" /\ nok[h] >= 1

\* C8: teardown is atomic for every other coroutine: whenever the event loop
\* is free, no handler is between its stop and its release, a handler's stop
\* is on the wire exactly if it has freed the slot, and a handler that left
\* its frame loop processes no further frame.
C8_AtomicTeardown ==
    /\ running = None =>
          \A h \in Handlers :
              /\ pc[h] \notin {"stop", "free"}
              /\ StopSent(h) <=> frees[h] = 1
              /\ frees[h] = 1 => connected_client # h
    /\ \A h \in Handlers : cause[h] # "none" => pc[h] \notin InLoop

C8_Witness ==
    /\ running = None
    /\ \E h, g \in Handlers :
          /\ pc[h] = "done" /\ StopSent(h)
          /\ pc[g] = "recv" /\ connected_client = g

\* The serial frames of one control message, in the order the loop sends them.
Frames(d) ==
    IF ~d.ok THEN <<>>
    ELSE <<InverseKinematics(d).frame, ElevatorServo(d).frame, ClawServo(d).frame>>
FramesOf == { <<m, Frames(model_validate_json(m))>> : m \in Messages }
Commands(m, h) ==
    LET frames == (CHOOSE p \in FramesOf : p[1] = m)[2]
    IN  [i \in DOMAIN frames |-> frames[i] @@ [by |-> h]]

RECURSIVE Expected(_, _)
Expected(h, n) ==
    IF n = 0 THEN <<>> ELSE Expected(h, n - 1) \o Commands(arrived[h][n], h)

Motion(h) == LET ByH(e) == e.by = h /\ e.op # "x" IN SelectSeq(wire, ByH)

IsPrefix(a, b) == Len(a) <= Len(b) /\ a = SubSeq(b, 1, Len(a))

\* C9: the frames a session writes are those of its control messages in
\* arrival order, three per processed message in the order k, s channel 0,
\* s channel 1, and the frames of one connection are contiguous on the wire.
C9_FramesInOrder ==
    /\ \A h \in Handlers :
          LET w == Motion(h)
          IN  /\ IsPrefix(w, Expected(h, nread[h]))
              /\ Len(w) >= 3 * nok[h]
              /\ pc[h] = "recv" => Len(w) = 3 * nok[h] /\ nok[h] = nread[h]
              /\ \A j \in 0..(nok[h] - 1) :
                    /\ w[3 * j + 1].op = "k"
                    /\ w[3 * j + 2].op = "s" /\ w[3 * j + 2].channel = ELEVATOR_CHANNEL
                    /\ w[3 * j + 3].op = "s" /\ w[3 * j + 3].channel = CLAW_CHANNEL
    /\ \A i, k \in 1..Len(wire) :
          (i < k /\ wire[i].by = wire[k].by) =>
              \A j \in i..k : wire[j].by = wire[i].by

C9_Witness ==
    \E h \in Handlers :
        /\ nok[h] = 2 /\ pc[h] = "recv"
        /\ arrived[h][1] # arrived[h][2]

\* C10: on the serial device the events of one send or receive are contiguous:
\* the bytes of a frame are header, opcode, payload with nothing of another
\* operation in between, and nothing happens during a receive.
C10_AtomicOnWire ==
    /\ \A i, k \in 1..Len(device) :
          (i < k /\ device[i].t = device[k].t /\ device[i].n = device[k].n) =>
              \A j \in i..k : device[j].t = device[i].t /\ device[j].n = device[i].n
    /\ \A t \in Threads :
          /\ (tpc[t] = "reading" \/ (tpc[t] = "write" /\ progress[t].bytes > 0)) =>
                device[Len(device)].t = t
          /\ op[t].kind = "send" =>
                LET Mine(e) == e.t = t /\ e.n = progress[t].ops
                    sent    == SelectSeq(device, Mine)
                    bytes   == FrameBytes(op[t].command_byte, op[t].data_bytes)
                IN  /\ Len(sent) = progress[t].bytes
                    /\ \A i \in 1..Len(sent) :
                          sent[i].kind = "w" /\ sent[i].byte = bytes[i]

C10_Witness ==
    \E t, u \in Threads :
        /\ t # u
        /\ tpc[t] = "write" /\ progress[t].bytes >= 2
        /\ tpc[u] = "lock" /\ op[u].kind = "recv"
\* ------------------------------------------------------------ C11
\* The positions of a thread inside "with self.lock": one write or one read.
InsideWith ==
    {"write", "read", "reading", "send_frame", "receive", "unlock", "unwind"}

\* The device call the holder is in ends: it returns or it raises.
CallEnds(t) ==
    \/ tpc[t] \in {"unlock", "unwind"}
    \/ tpc[t] \in {"send_frame", "receive"} /\ ENABLED (SendRaises(t) \/ ReceiveRaises(t))

\* C11: a thread holds the serial lock exactly while it is inside one single
\* send_command or receive_data call: never before or after a call, never
\* between the send and the receive of ping / read_angles, never after a
\* write or read raised. So whenever a thread waits for the lock, the lock is
\* free or its holder is another thread inside one device call that ends,
\* and no thread waits forever.
C11_LockOneCallOnly ==
    /\ \A t \in Threads : (lock = t) <=> (tpc[t] \in InsideWith)
    /\ \A t \in Threads :
          tpc[t] = "lock" =>
             \/ lock = None /\ ENABLED Acquire(t)
             \/ lock \in Threads \ {t} /\ CallEnds(lock)

\* A query between its send and its receive waits for the lock, while the
\* other thread, whose device call raised, still holds it.
C11_Witness ==
    \E t, u \in Threads :
       /\ call[t].phase = "recv" /\ tpc[t] = "lock"
       /\ lock = u /\ tpc[u] = "unwind"

\* ------------------------------------------------------------ C12
\* C12: close() is best-effort: once a close() call is over it has not
\* raised, also when its StopAllSteppers send failed, and the serial port is
\* closed.
C12_CloseBestEffort ==
    \A t \in Threads :
       (call[t].method = "close" /\ call[t].phase = "done") =>
          /\ result[t].kind = "returned"
          /\ ~is_open

\* ------------------------------------------------------------ C13
\* C13: set_servo_pwm(channel, on, off) raises ValueError and writes nothing
\* when channel is outside 0..15 or on or off is outside 0..4095; otherwise
\* it writes exactly one frame: 'M', 's', the channel byte, on and off as
\* little-endian 16-bit values.
C13_PwmValidated ==
    output.fn = "set_servo_pwm" =>
       LET channel == input.channel
           on      == input.on_time
           off     == input.off_time
       IN  IF channel \in 0..15 /\ on \in 0..4095 /\ off \in 0..4095
           THEN /\ output.result.ok
                /\ output.written =
                      << <<77, 115, channel, on % 256, on \div 256,
                           off % 256, off \div 256>> >>
           ELSE /\ output.result = ValueError
                /\ output.written = <<>>

\* A call with a valid channel and on time rejected for its off time.
C13_Witness ==
    /\ output.fn = "set_servo_pwm"
    /\ input.channel = 15 /\ input.on_time = 0 /\ input.off_time = 4096
    /\ output.written = <<>>

\* ------------------------------------------------------------ C14
\* The servo command for slider value v (a JSON number <<n, d>>) on channel c:
\* accepted, on = 0, off within 100..470, 100 for v <= -1 and 470 for v >= 1.
CalibratedPulse(cmd, c, v) ==
    /\ cmd.ok
    /\ cmd.frame.op = "s" /\ cmd.frame.channel = c /\ cmd.frame.on_time = 0
    /\ cmd.frame.off_time \in 100..470
    /\ (v[1] <= -v[2]) => cmd.frame.off_time = 100
    /\ (v[1] >= v[2]) => cmd.frame.off_time = 470
    /\ set_servo_pwm(c, cmd.frame.on_time, cmd.frame.off_time) # ValueError

\* C14: for every slider value the session computes an elevator command on
\* channel 0 and a claw command on channel 1 with on = 0 and off the
\* calibrated pulse (100 at or below -1, 470 at or above 1, always within
\* 100..470), so neither is rejected by the range validation of
\* set_servo_pwm and both are written.
C14_SliderPulse ==
    output.fn = "sliders" =>
       /\ Len(output.commands) = 2
       /\ CalibratedPulse(output.commands[1], ELEVATOR_CHANNEL,
                          input.message.sliders.Elevator)
       /\ CalibratedPulse(output.commands[2], CLAW_CHANNEL, input.message.sliders.Claw)
       /\ Len(output.written) = 2

\* Elevator below the slider range, claw in the middle of it.
C14_Witness ==
    /\ output.fn = "sliders"
    /\ input.message.sliders.Elevator = <<-2, 1>>
    /\ input.message.sliders.Claw = <<0, 1>>
    /\ output.commands[1].frame.off_time = 100
    /\ output.commands[2].frame.off_time = 285

\* ------------------------------------------------------------ C15
\* C15: with input_min < input_max and output_min < output_max, every
\* map_range result lies within [output_min, output_max], is output_min for
\* a value at or below input_min and output_max for a value at or above
\* input_max, and a larger value never gives a smaller result.
C15_ClampedMonotonic ==
    output.fn = "map_range" =>
       \A i \in DOMAIN output.calls :
          LET c == output.calls[i]
          IN  /\ RLeq(input.output_min, c.result) /\ RLeq(c.result, input.output_max)
              /\ RLeq(c.value, input.input_min) => c.result = input.output_min
              /\ RLeq(input.input_max, c.value) => c.result = input.output_max
              /\ \A j \in DOMAIN output.calls :
                    RLeq(c.value, output.calls[j].value) =>
                       RLeq(c.result, output.calls[j].result)

\* ------------------------------------------------------------ C18
\* The payload length of each opcode.
PayloadLength ==
    (Ascii["s"] :> 5) @@ (Ascii["u"] :> 12) @@ (Ascii["k"] :> 24)
       @@ (Ascii["a"] :> 0) @@ (Ascii["x"] :> 0) @@ (Ascii["p"] :> 0)

\* C18: every frame a typed command operation writes starts with the header
\* byte 'M' and an opcode among s, a, u, x, p, k, and its payload has the
\* length fixed by the opcode: s 5 bytes, u 12, k 24, a, x and p none.
C18_FrameShape ==
    (output # NotCalled /\ output.fn # "map_range") =>
       \A i \in DOMAIN output.written :
          LET frame == output.written[i]
          IN  /\ Len(frame) >= 2
              /\ frame[1] = Ascii["M"]
              /\ frame[2] \in DOMAIN PayloadLength
              /\ Len(frame) - 2 = PayloadLength[frame[2]]
              /\ \A b \in DOMAIN frame : frame[b] \in 0..255

\* A 'k' frame carrying three doubles, one of them not a dyadic number.
C18_Witness ==
    /\ output # NotCalled
    /\ output.fn = "set_inverse_kinematics"
    /\ input.message.joystick.y = <<-1, 3>>
    /\ input.message.joystick.x = <<2, 1>>
    /\ Len(output.written) = 1
    /\ output.written[1][2] = Ascii["k"]

\* ------------------------------------------------------------ C16
\* Thread t takes the step that writes the request frame of its query.
SendsRequest(t) ==
    tpc[t] = "send_frame" /\ tpc'[t] = "unlock"

\* Thread t takes the step on which its query returns after its receive.
Returns(t) ==
    tpc[t] = "unlock" /\ call[t].phase = "recv" /\ call'[t].phase = "done"

\* C16: ping writes the one frame 'M','p' and, whatever bytes its receive
\* returned, returns True exactly when they are the four bytes "pong", and
\* False (no exception) otherwise, also for a short or an empty read.
C16_PingDecodes ==
    [][\A t \in Threads :
          call[t].method = "ping" =>
             /\ SendsRequest(t) =>
                   requests' = Append(requests, [t |-> t, command |-> 112])
             /\ Returns(t) =>
                   result'[t] = [kind |-> "returned",
                                 value |-> (Bytes(received[t]) = <<112, 111, 110, 103>>)]
      ]_vars

\* One ping has returned True and another one False.
C16_Witness ==
    \E t, u \in Threads :
       /\ call[t].method = "ping" /\ result[t] = Returned(TRUE)
       /\ call[u].method = "ping" /\ result[u] = Returned(FALSE)

\* ------------------------------------------------------------ C17
\* The 12 bytes are one whole reply of the board, encoding the ticks T.
WholeReply(buf, T) ==
    /\ Len(buf) = 12
    /\ \A i \in 1..12 : buf[i].pos = i /\ buf[i].ticks = T /\ buf[i].req = buf[1].req

\* The value v (whole degrees plus a fraction) is ticks * 360 / 4096.
IsDegrees(v, ticks) ==
    /\ v.frac[2] > 0 /\ 0 <= v.frac[1] /\ v.frac[1] < v.frac[2]
    /\ 4096 % v.frac[2] = 0
    /\ 4096 * v.whole + v.frac[1] * (4096 \div v.frac[2]) = 360 * ticks

\* C17: read_angles writes the one frame 'M','a'; when its receive returned
\* fewer than 12 bytes it raises IOError and returns nothing; when it
\* returned 12 bytes it returns three values, and if the bytes are a reply
\* encoding the tick counts T as little-endian signed 32-bit integers, value
\* i is T[i] * 360 / 4096.
C17_AnglesDecoded ==
    [][\A t \in Threads :
          call[t].method = "read_angles" =>
             /\ SendsRequest(t) =>
                   requests' = Append(requests, [t |-> t, command |-> 97])
             /\ (Returns(t) /\ Len(received[t]) < 12) =>
                   result'[t] = [kind |-> "raised", error |-> "IOError"]
             /\ (Returns(t) /\ Len(received[t]) = 12) =>
                   /\ result'[t].kind = "returned"
                   /\ DOMAIN result'[t].value = 1..3
                   /\ \A T \in TickTriples :
                         WholeReply(received[t], T) =>
                            \A i \in 1..3 : IsDegrees(result'[t].value[i], T[i])
      ]_vars

\* read_angles has returned 0, 180 and 360 degrees for 0, 2048 and 4096 ticks.
C17_Witness ==
    \E t \in Threads :
       /\ call[t].method = "read_angles"
       /\ result[t] = Returned(<<[whole |-> 0, frac |-> <<0, 1>>],
                                 [whole |-> 180, frac |-> <<0, 1>>],
                                 [whole |-> 360, frac |-> <<0, 1>>]>>)

\* ------------------------------------------------------------ C19
\* C19: whatever a thread's receive returned are bytes the board sent in
\* reply to that thread's own request, never bytes replying to a request of
\* another thread.
C19_OwnReplyOnly ==
    \A t \in Threads :
       \A i \in DOMAIN received[t] : received[t][i].req = t

====
